---------------------------- MODULE Spec2Model ----------------------------
(***************************************************************************)
(* A state-machine model of the RPC workflow runner of ava-e2e-tests       *)
(* (commons/ava_testsuite/rpc_workflow_runner/rpc_workflow_runner.go).     *)
(*                                                                         *)
(* A runner invocation is a process p with a program counter pc[p] that    *)
(* names the source line of the statement it executes next ("L147" is line *)
(* 147 of rpc_workflow_runner.go), a stack of return labels, the local     *)
(* variables of the functions on the stack (loc[p]) and the value of the   *)
(* last return (ret[p]).  One step of a process is one RPC call or one     *)
(* time.Sleep together with the local computation that follows it.         *)
(*                                                                         *)
(* The node under test is the environment: it answers every RPC call with  *)
(* success or with an error, and changes its state (transaction status,    *)
(* account nonce and balance, validator set) at moments of its own.        *)
(*                                                                         *)
(* Time is counted in ticks, TicksPerSec to the second.  RPC calls and     *)
(* local computation take no time; time.Sleep(d) takes exactly d.          *)
(***************************************************************************)
EXTENDS Integers, Sequences, FiniteSets, TLC

(***************************************************************************)
(* Bounds of the model.                                                    *)
(***************************************************************************)
\* Clock resolution: ticks per second.
TicksPerSec == 2
\* networkAcceptanceTimeout ranges over 0..MaxTimeout ticks.
MaxTimeout == 3
\* The node's nonce of an account starts in 0..MaxNonce.
MaxNonce == 1
\* The node answers "no import inputs" at most this many times in one workflow.
MaxImportAttempts == 3
\* networkAcceptanceTimeout of a GetFundsAndStartValidating run: 0..MaxFundsTimeout ticks.
MaxFundsTimeout == 1
\* networkAcceptanceTimeout of two concurrent invocations: 0..MaxConcTimeout ticks.
MaxConcTimeout == 0
\* requestTimeout of a requester ranges over 1..MaxRequestTimeout ticks.
MaxRequestTimeout == 2
\* The node answers a request within MaxRpcWait ticks, or never.
MaxRpcWait == 4

(***************************************************************************)
(* Program constants (rpc_workflow_runner.go, lines 13-26), in seconds.    *)
(***************************************************************************)
TIME_UNTIL_STAKING_BEGINS == 20
TIME_UNTIL_STAKING_ENDS == 259200
TIME_UNTIL_DELEGATING_BEGINS == 20
TIME_UNTIL_DELEGATING_ENDS == 259200
DELEGATION_FEE_RATE == 500000
IMPORT_AVA_TO_XCHAIN_TIMEOUT == 1
\* The poll interval of the wait primitives and of the start-time gates:
\* time.Sleep(time.Second).
POLL_INTERVAL == 1
\* A variant of the awaited status: that of a transaction still pending.
TRANSACTION_PROCESSING_STATUS == "Processing"
TRANSACTION_ACCEPTED_STATUS == "Accepted"
XCHAIN_ADDRESS_PREFIX == <<"X-">>
\* Strings the code searches or trims are sequences of tokens.
NO_IMPORT_INPUTS_ERROR_STR ==
    <<"problem", "issuing", "transaction:", "no", "import", "inputs">>

Procs == {1, 2}
NodeIds == {"n1", "n2"}
\* The identity the node under test reports for itself (info.getNodeID).
SelfNodeId == "n1"
PAddrs == {<<"P1">>, <<"P2">>}
XAddrs == {<<"X-", "a1">>}
NoStr == <<>>

(***************************************************************************)
(* Strings: decimal numbers are sequences of characters.                   *)
(***************************************************************************)
DigitChars == <<"0", "1", "2", "3", "4", "5", "6", "7", "8", "9">>
IsDigit(c) == \E d \in 0..9 : DigitChars[d + 1] = c
DigitVal(c) == CHOOSE d \in 0..9 : DigitChars[d + 1] = c

\* The node's decimal rendering of a non-negative integer (AccountInfo.Nonce,
\* AccountInfo.Balance).
RECURSIVE FormatInt(_)
FormatInt(n) ==
    IF n < 10 THEN <<DigitChars[n + 1]>>
    ELSE FormatInt(n \div 10) \o <<DigitChars[(n % 10) + 1]>>

RECURSIVE ParseDigits(_, _)
ParseDigits(s, acc) ==
    IF s = <<>> THEN acc
    ELSE ParseDigits(Tail(s), acc * 10 + DigitVal(Head(s)))

\* strconv.Atoi: an optional sign followed by at least one decimal digit.
Atoi(s) ==
    LET signed == s # <<>> /\ Head(s) \in {"+", "-"}
        body == IF signed THEN Tail(s) ELSE s
    IN  IF body = <<>> \/ \E i \in 1..Len(body) : ~IsDigit(body[i])
        THEN [ok |-> FALSE, val |-> 0]
        ELSE [ok |-> TRUE,
              val |-> IF signed /\ Head(s) = "-"
                      THEN 0 - ParseDigits(body, 0)
                      ELSE ParseDigits(body, 0)]

\* strings.Contains on token sequences.
Contains(s, sub) ==
    \E i \in 1..(Len(s) + 1) :
        /\ i + Len(sub) - 1 <= Len(s)
        /\ SubSeq(s, i, i + Len(sub) - 1) = sub

\* strings.TrimPrefix.
TrimPrefix(s, prefix) ==
    IF Len(s) >= Len(prefix) /\ SubSeq(s, 1, Len(prefix)) = prefix
    THEN SubSeq(s, Len(prefix) + 1, Len(s))
    ELSE s

(***************************************************************************)
(* Errors.  kind names the root cause: "rpc" (the RPC call failed),        *)
(* "parse" (strconv.Atoi failed), "timeout" (stacktrace.NewError of a wait *)
(* primitive).  msg is err.Error().                                        *)
(***************************************************************************)
NilErr == [nil |-> TRUE, kind |-> "nil", msg |-> <<>>]
NewError(kind, msg) == [nil |-> FALSE, kind |-> kind, msg |-> msg]
\* stacktrace.Propagate: the cause's message stays part of the new message.
Propagate(err, msg) == [err EXCEPT !.msg = msg \o <<"Caused", "by:">> \o @]

\* What a failed X-chain ImportAVA reports (makeRpcRequest's errors): the RPC
\* error whose message is the not-yet-final one, or another RPC error.
NoImportInputsFailure ==
    NewError("rpc", <<"RPC", "call", "failed:">> \o NO_IMPORT_INPUTS_ERROR_STR)
OtherImportFailure ==
    NewError("rpc", <<"RPC", "call", "failed:", "problem", "issuing",
                      "transaction:", "no", "import", "funds">>)
\* For the calls whose error message the runner never inspects.
SomeRpcFailure ==
    NewError("rpc", <<"Error", "occurred", "when", "making", "JSON", "RPC",
                      "POST", "request">>)

VARIABLES
    \* ---- the runner ----
    networkAcceptanceTimeout,   \* RpcWorkflowRunner.networkAcceptanceTimeout, in ticks
    wf,          \* wf[p]: the function process p was started in
    pc,          \* pc[p]: "idle", "done", or the label of the next statement
    stack,       \* stack[p]: return labels of the calls in progress, innermost first
    loc,         \* loc[p]: the local variables of the functions of p
    ret,         \* ret[p]: [val, err] of the last return
    wake,        \* wake[p]: the time at which p's last time.Sleep ends
    \* ---- the node under test ----
    now,         \* the clock, in ticks
    nonce,       \* nonce[a]: the current nonce of P-chain account a
    balance,     \* balance[a]: the balance of P-chain account a
    validators,  \* the node ids of the current validator set
    xtx,         \* xtx[i]: the status of X-chain transaction i
    pending,     \* P-chain transactions issued and not yet applied
    importInputs,\* value exported from the P-chain and not yet imported on the X-chain
    \* ---- observation of the run (no effect on it) ----
    hist,        \* hist[p]: what p's RPC calls and sleeps did so far
    waitRes,     \* waitRes[p]: the result of the last wait primitive p returned from
    ops,         \* the P-chain operations constructed, with the nonce passed
    issued       \* the P-chain transactions handed to IssueTx

runnerVars == <<networkAcceptanceTimeout, wf, pc, stack, loc, ret, wake>>
nodeVars == <<now, nonce, balance, validators, xtx, pending, importInputs>>
obsVars == <<hist, waitRes, ops, issued>>
vars == <<runnerVars, nodeVars, obsVars>>

(***************************************************************************)
(* Time.                                                                   *)
(***************************************************************************)
\* A variant that takes the clock reading for the number of seconds.
Unix_Raw(t) == t

\* time.Now().Unix()
Unix(t) == t \div TicksPerSec

\* A variant of the gate that opens one second early.
GateHolds_Short(unixNow, startTime) == unixNow + 1 < startTime

\* The condition of the loops that hold a workflow back until the start time
\* of its transaction: `for time.Now().Unix() < startTime` (lines 136, 175).
GateHolds(unixNow, startTime) == unixNow < startTime
Seconds(n) == n * TicksPerSec
Active == {p \in Procs : pc[p] \notin {"idle", "done"}}
Awake(p) == now >= wake[p]

SetMin(S) == CHOOSE x \in S : \A y \in S : x <= y

\* Time passes only while every running process sleeps, up to the first wake-up.
Tick ==
    /\ Active # {}
    /\ \A p \in Active : ~Awake(p)
    /\ now' = SetMin({wake[p] : p \in Active})
    /\ UNCHANGED <<runnerVars, nonce, balance, validators, xtx, pending, importInputs,
                   obsVars>>

(***************************************************************************)
(* Control flow of a process.                                              *)
(***************************************************************************)
Goto(p, label) ==
    /\ pc' = [pc EXCEPT ![p] = label]
    /\ UNCHANGED <<stack, ret>>

Call(p, entry, retLabel) ==
    /\ pc' = [pc EXCEPT ![p] = entry]
    /\ stack' = [stack EXCEPT ![p] = <<retLabel>> \o @]
    /\ UNCHANGED ret

Return(p, val, err) ==
    /\ ret' = [ret EXCEPT ![p] = [val |-> val, err |-> err]]
    /\ IF stack[p] = <<>>
       THEN /\ pc' = [pc EXCEPT ![p] = "done"]
            /\ UNCHANGED stack
       ELSE /\ pc' = [pc EXCEPT ![p] = Head(stack[p])]
            /\ stack' = [stack EXCEPT ![p] = Tail(@)]

\* time.Sleep(d seconds)
Sleep(p, d) == wake' = [wake EXCEPT ![p] = now + Seconds(d)]

(***************************************************************************)
(* Observation.  hist[p] records whether an RPC call of p failed (other    *)
(* than the failures the runner is documented to tolerate), whether p made *)
(* an RPC call or slept after such a failure, whether two X-chain          *)
(* ImportAVA calls followed each other with no sleep between, and the last *)
(* event: an RPC call (its method, the account it names, its outcome and,  *)
(* for GetAccount, the node's nonce it reported) or a sleep.               *)
(***************************************************************************)
NoEvent == [method |-> "none", addr |-> NoStr, ok |-> TRUE, nonce |-> 0]
InitHist ==
    [failed |-> FALSE, callAfterFail |-> FALSE, sleepAfterFail |-> FALSE,
     importsBackToBack |-> FALSE, last |-> NoEvent]

SawRpc(p, method, addr, ok, n, tolerated) ==
    hist' = [hist EXCEPT ![p] =
        [failed |-> @.failed \/ (~ok /\ ~tolerated),
         callAfterFail |-> @.callAfterFail \/ @.failed,
         sleepAfterFail |-> @.sleepAfterFail,
         importsBackToBack |->
             @.importsBackToBack
                 \/ (method = "X.ImportAVA" /\ @.last.method = "X.ImportAVA"),
         last |-> [method |-> method, addr |-> addr, ok |-> ok, nonce |-> n]]]

SawSleep(p) ==
    hist' = [hist EXCEPT ![p] =
        [@ EXCEPT !.sleepAfterFail = @ \/ hist[p].failed,
                  !.last = [NoEvent EXCEPT !.method = "sleep"]]]

SawWait(p, fn, err) ==
    waitRes' = [waitRes EXCEPT ![p] =
        [fn |-> fn, err |-> err, elapsed |-> now - loc[p].pollStartTime]]

(***************************************************************************)
(* The node.                                                               *)
(***************************************************************************)
\* GetCurrentValidators: the validator list (Validator.Id of each member).
RECURSIVE SetToSeq(_)
SetToSeq(S) ==
    IF S = {} THEN <<>>
    ELSE LET x == CHOOSE x \in S : TRUE IN <<x>> \o SetToSeq(S \ {x})

\* An X-chain transaction leaves "Processing".
NodeDecideXTx ==
    \E i \in 1..Len(xtx), s \in {TRANSACTION_ACCEPTED_STATUS, "Rejected"} :
        /\ xtx[i] = "Processing"
        /\ xtx' = [xtx EXCEPT ![i] = s]
        /\ UNCHANGED <<runnerVars, now, nonce, balance, validators, pending, importInputs,
                       obsVars>>

\* The node applies an issued P-chain transaction: it takes effect when it
\* carries the account's nonce plus one, and is dropped otherwise.
NodeApplyPTx ==
    \E tx \in pending :
        /\ pending' = pending \ {tx}
        /\ IF tx.nonce = nonce[tx.addr] + 1
           THEN /\ nonce' = [nonce EXCEPT ![tx.addr] = @ + 1]
                /\ balance' = IF tx.kind = "importAVA"
                              THEN [balance EXCEPT ![tx.addr] = @ + tx.amount]
                              ELSE balance
                /\ validators' = IF tx.kind = "addValidator"
                                 THEN validators \cup {tx.nodeId}
                                 ELSE validators
                /\ importInputs' = IF tx.kind = "exportAVA"
                                   THEN importInputs + 1
                                   ELSE importInputs
           ELSE UNCHANGED <<nonce, balance, validators, importInputs>>
        /\ UNCHANGED <<runnerVars, now, xtx, obsVars>>

(***************************************************************************)
(* checkValidatorInValidators (lines 365-372).                             *)
(***************************************************************************)
checkValidatorInValidators(nodeId, vals) ==
    \E i \in 1..Len(vals) : vals[i] = nodeId

(***************************************************************************)
(* The loop conditions of the wait primitives (lines 329, 351, 385).       *)
(***************************************************************************)
\* A variant of the X-chain loop condition that polls once more when the
\* elapsed time equals the timeout.
XchainPollAgain_Inclusive(elapsed, timeout, status) ==
    elapsed <= timeout /\ status # TRANSACTION_ACCEPTED_STATUS

XchainPollAgain(elapsed, timeout, status) ==
    elapsed < timeout /\ status # TRANSACTION_ACCEPTED_STATUS

\* A variant of the validator loop condition that looks at the time only.
ValidatorPollAgain_TimeOnly(elapsed, timeout, nodeId, vals) ==
    elapsed < timeout

ValidatorPollAgain(elapsed, timeout, nodeId, vals) ==
    elapsed < timeout /\ ~checkValidatorInValidators(nodeId, vals)

BalancePollAgain(elapsed, timeout, bal) ==
    elapsed < timeout /\ bal = <<"0">>

(***************************************************************************)
(* A state query of a wait primitive failed: `return stacktrace.Propagate` *)
(* (lines 325-327, 331-333, 347-349, 354-356, 377-379, 387-389).           *)
(***************************************************************************)
\* A variant that swallows the failure and polls again.
QueryFailed_KeepPolling(p, fn, msg) ==
    Goto(p, pc[p]) /\ UNCHANGED waitRes

QueryFailed(p, fn, msg) ==
    LET e == Propagate(SomeRpcFailure, msg)
    IN  Return(p, NoStr, e) /\ SawWait(p, fn, e)

(***************************************************************************)
(* waitForXchainTransactionAcceptance (lines 322-342).                     *)
(***************************************************************************)
waitForXchainTransactionAcceptance(p) ==
    /\ Awake(p)
    /\ \/ /\ pc[p] = "L324"
          /\ \/ \* GetTxStatus fails
                /\ SawRpc(p, "X.GetTxStatus", NoStr, FALSE, 0, FALSE)
                /\ QueryFailed(p, "waitForXchainTransactionAcceptance",
                               <<"Failed", "to", "get", "status.">>)
                /\ UNCHANGED loc
             \/ /\ SawRpc(p, "X.GetTxStatus", NoStr, TRUE, 0, FALSE)
                /\ loc' = [loc EXCEPT ![p].status = xtx[loc[p].txnId],
                                      ![p].pollStartTime = now]
                /\ Goto(p, "L329")
                /\ UNCHANGED waitRes
          /\ UNCHANGED wake
       \/ /\ pc[p] = "L329"
          /\ IF XchainPollAgain(now - loc[p].pollStartTime, networkAcceptanceTimeout,
                                loc[p].status)
             THEN \/ /\ SawRpc(p, "X.GetTxStatus", NoStr, FALSE, 0, FALSE)
                     /\ QueryFailed(p, "waitForXchainTransactionAcceptance",
                               <<"Failed", "to", "get", "status.">>)
                     /\ UNCHANGED loc
                  \/ /\ SawRpc(p, "X.GetTxStatus", NoStr, TRUE, 0, FALSE)
                     /\ loc' = [loc EXCEPT ![p].status = xtx[loc[p].txnId]]
                     /\ Goto(p, "L335")
                     /\ UNCHANGED waitRes
             ELSE /\ LET e == IF loc[p].status # TRANSACTION_ACCEPTED_STATUS
                              THEN NewError("timeout",
                                       <<"Timed", "out", "waiting", "for", "transaction">>)
                              ELSE NilErr
                     IN  Return(p, NoStr, e)
                           /\ SawWait(p, "waitForXchainTransactionAcceptance", e)
                  /\ UNCHANGED <<loc, hist>>
          /\ UNCHANGED wake
       \/ /\ pc[p] = "L335"
          /\ Sleep(p, POLL_INTERVAL)
          /\ SawSleep(p)
          /\ Goto(p, "L329")
          /\ UNCHANGED <<loc, waitRes>>
    /\ UNCHANGED <<networkAcceptanceTimeout, wf, nodeVars, ops, issued>>

(***************************************************************************)
(* waitForValidatorAddition (lines 344-363).                               *)
(***************************************************************************)
waitForValidatorAddition(p) ==
    /\ Awake(p)
    /\ \/ /\ pc[p] = "L346"
          /\ \/ /\ SawRpc(p, "P.GetCurrentValidators", NoStr, FALSE, 0, FALSE)
                /\ QueryFailed(p, "waitForValidatorAddition",
                               <<"Could", "not", "get", "current", "validators">>)
                /\ UNCHANGED loc
             \/ /\ SawRpc(p, "P.GetCurrentValidators", NoStr, TRUE, 0, FALSE)
                /\ loc' = [loc EXCEPT ![p].validators = SetToSeq(validators),
                                      ![p].pollStartTime = now]
                /\ Goto(p, "L351")
                /\ UNCHANGED waitRes
          /\ UNCHANGED wake
       \/ /\ pc[p] = "L351"
          /\ IF ValidatorPollAgain(now - loc[p].pollStartTime, networkAcceptanceTimeout,
                                   loc[p].nodeId, loc[p].validators)
             THEN /\ Sleep(p, POLL_INTERVAL)
                  /\ SawSleep(p)
                  /\ Goto(p, "L353")
                  /\ UNCHANGED waitRes
             ELSE /\ LET e == IF ~checkValidatorInValidators(loc[p].nodeId,
                                                             loc[p].validators)
                              THEN NewError("timeout",
                                       <<"Timed", "out", "waiting", "for", "validator">>)
                              ELSE NilErr
                     IN  Return(p, NoStr, e) /\ SawWait(p, "waitForValidatorAddition", e)
                  /\ UNCHANGED <<wake, hist>>
          /\ UNCHANGED loc
       \/ /\ pc[p] = "L353"
          /\ \/ /\ SawRpc(p, "P.GetCurrentValidators", NoStr, FALSE, 0, FALSE)
                /\ QueryFailed(p, "waitForValidatorAddition",
                               <<"Could", "not", "get", "current", "validators">>)
                /\ UNCHANGED loc
             \/ /\ SawRpc(p, "P.GetCurrentValidators", NoStr, TRUE, 0, FALSE)
                /\ loc' = [loc EXCEPT ![p].validators = SetToSeq(validators)]
                /\ Goto(p, "L351")
                /\ UNCHANGED waitRes
          /\ UNCHANGED wake
    /\ UNCHANGED <<networkAcceptanceTimeout, wf, nodeVars, ops, issued>>

(***************************************************************************)
(* waitForPchainNonZeroBalance (lines 374-399).                            *)
(***************************************************************************)
waitForPchainNonZeroBalance(p) ==
    /\ Awake(p)
    /\ LET a == loc[p].pchainAddress IN
       \/ /\ pc[p] = "L376"
          /\ \/ /\ SawRpc(p, "P.GetAccount", a, FALSE, 0, FALSE)
                /\ QueryFailed(p, "waitForPchainNonZeroBalance",
                               <<"Could", "not", "get", "PChain", "account", "information">>)
                /\ UNCHANGED loc
             \/ /\ SawRpc(p, "P.GetAccount", a, TRUE, nonce[a], FALSE)
                /\ loc' = [loc EXCEPT ![p].balance = FormatInt(balance[a]),
                                      ![p].pollStartTime = now]
                /\ Goto(p, "L385")
                /\ UNCHANGED waitRes
          /\ UNCHANGED wake
       \/ /\ pc[p] = "L385"
          /\ IF BalancePollAgain(now - loc[p].pollStartTime, networkAcceptanceTimeout,
                                 loc[p].balance)
             THEN \/ /\ SawRpc(p, "P.GetAccount", a, FALSE, 0, FALSE)
                     /\ QueryFailed(p, "waitForPchainNonZeroBalance",
                               <<"Failed", "to", "get", "account", "information.">>)
                     /\ UNCHANGED loc
                  \/ /\ SawRpc(p, "P.GetAccount", a, TRUE, nonce[a], FALSE)
                     /\ loc' = [loc EXCEPT ![p].balance = FormatInt(balance[a])]
                     /\ Goto(p, "L392")
                     /\ UNCHANGED waitRes
             ELSE /\ LET e == IF loc[p].balance = <<"0">>
                              THEN NewError("timeout",
                                       <<"Timed", "out", "waiting", "for", "PChain", "address">>)
                              ELSE NilErr
                     IN  Return(p, NoStr, e) /\ SawWait(p, "waitForPchainNonZeroBalance", e)
                  /\ UNCHANGED <<loc, hist>>
          /\ UNCHANGED wake
       \/ /\ pc[p] = "L392"
          /\ Sleep(p, POLL_INTERVAL)
          /\ SawSleep(p)
          /\ Goto(p, "L385")
          /\ UNCHANGED <<loc, waitRes>>
    /\ UNCHANGED <<networkAcceptanceTimeout, wf, nodeVars, ops, issued>>

(***************************************************************************)
(* P-chain transactions.  A handle is the transaction it stands for,       *)
(* together with its stage (unsigned, signed).                             *)
(***************************************************************************)
Txn(kind, addr, n, nodeId, amount, start, end, stage) ==
    [kind |-> kind, addr |-> addr, nonce |-> n, nodeId |-> nodeId, amount |-> amount,
     startTime |-> start, endTime |-> end, stage |-> stage]

\* A variant that passes the nonce as read.
PayerNonceArg_AsRead(currentPayerNonce) == currentPayerNonce

\* The payer nonce of a new operation: `currentPayerNonce + 1`
\* (lines 119, 157, 256, 286).
PayerNonceArg(currentPayerNonce) == currentPayerNonce + 1

\* What the node may send as AccountInfo.Nonce: the decimal rendering of the
\* account's nonce, or text that is no number.
NonceReplies(a) == {FormatInt(nonce[a]), <<"0", "x">>}

\* p has read a nonce that it has not yet submitted in a transaction.
HoldsNonce(p) ==
    pc[p] \in {"L113", "L124", "L132", "L151", "L163", "L171", "L256", "L260",
               "L286", "L290", "L294"}

\* p is about to read the nonce of its account.
AtNonceRead(p) == pc[p] \in {"L109", "L147", "L252", "L281"}

\* A variant that keeps the nonce of an earlier operation of the same
\* invocation instead of reading it again.
getCurrentPayerNonce_Cached(p, a, okLabel) ==
    IF \E o \in ops : o.p = p /\ o.addr = a
    THEN Goto(p, okLabel) /\ UNCHANGED <<loc, hist>>
    ELSE \/ /\ SawRpc(p, "P.GetAccount", a, FALSE, 0, FALSE)
            /\ Return(p, NoStr, SomeRpcFailure)
            /\ UNCHANGED loc
         \/ /\ SawRpc(p, "P.GetAccount", a, TRUE, nonce[a], FALSE)
            /\ loc' = [loc EXCEPT ![p].currentPayerNonce = nonce[a]]
            /\ Goto(p, okLabel)

\* A variant that reads the nonce only while no other invocation on the
\* same account holds one.
getCurrentPayerNonce_Locked(p, a, okLabel) ==
    /\ \A q \in Procs \ {p} : ~(HoldsNonce(q) /\ loc[q].pchainAddress = a)
    /\ \/ /\ SawRpc(p, "P.GetAccount", a, FALSE, 0, FALSE)
          /\ Return(p, NoStr, SomeRpcFailure)
          /\ UNCHANGED loc
       \/ /\ SawRpc(p, "P.GetAccount", a, TRUE, nonce[a], FALSE)
          /\ loc' = [loc EXCEPT ![p].currentPayerNonce = nonce[a]]
          /\ Goto(p, okLabel)

(***************************************************************************)
(* getCurrentPayerNonce (lines 401-411), and the caller's                  *)
(* `if err != nil { return stacktrace.Propagate(...) }`.                   *)
(***************************************************************************)
getCurrentPayerNonce(p, a, okLabel) ==
    \/ /\ SawRpc(p, "P.GetAccount", a, FALSE, 0, FALSE)
       /\ Return(p, NoStr, Propagate(SomeRpcFailure,
                               <<"Failed", "to", "get", "pchain", "account", "info.">>))
       /\ UNCHANGED loc
    \/ \E s \in NonceReplies(a) :
          /\ SawRpc(p, "P.GetAccount", a, TRUE, nonce[a], FALSE)
          /\ IF Atoi(s).ok
             THEN /\ loc' = [loc EXCEPT ![p].currentPayerNonce = Atoi(s).val]
                  /\ Goto(p, okLabel)
             ELSE /\ Return(p, NoStr, NewError("parse",
                                          <<"strconv.Atoi:", "invalid", "syntax">>))
                  /\ UNCHANGED loc

\* An RPC call whose reply the runner only threads on: it fails, and the
\* function returns the propagated error, or it succeeds.
RpcFails(p, method, a, msg) ==
    /\ SawRpc(p, method, a, FALSE, 0, FALSE)
    /\ Return(p, NoStr, Propagate(SomeRpcFailure, msg))

\* The P-chain operation constructed by p, as observed.
SawOp(p, kind, a, n) ==
    ops' = ops \cup {[p |-> p, kind |-> kind, addr |-> a, nonce |-> n,
                      nodeNonce |-> nonce[a], prev |-> hist[p].last]}

\* A variant that goes on to IssueTx whatever Sign returned.
SignStep_IgnoresError(p, a, okLabel) ==
    /\ \E ok \in BOOLEAN : SawRpc(p, "P.Sign", a, ok, 0, TRUE)
    /\ loc' = [loc EXCEPT ![p].signedTxn =
                   <<[loc[p].unsignedTxn[1] EXCEPT !.stage = "signed"]>>]
    /\ Goto(p, okLabel)

\* PChainApi().Sign and PChainApi().IssueTx of the handle in loc[p].
SignStep(p, a, okLabel) ==
    \/ /\ RpcFails(p, "P.Sign", a, <<"Failed", "to", "sign", "transaction.">>)
       /\ UNCHANGED loc
    \/ /\ SawRpc(p, "P.Sign", a, TRUE, 0, FALSE)
       /\ loc' = [loc EXCEPT ![p].signedTxn =
                      <<[loc[p].unsignedTxn[1] EXCEPT !.stage = "signed"]>>]
       /\ Goto(p, okLabel)

SawIssue(p, tx) ==
    issued' = issued \cup {[p |-> p, tx |-> tx, nodeNonce |-> nonce[tx.addr]]}

(***************************************************************************)
(* AddDelegatorOnSubnet (lines 103-140).                                   *)
(***************************************************************************)
AddDelegatorOnSubnet(p) ==
    /\ Awake(p)
    /\ LET a == loc[p].pchainAddress IN
       \/ /\ pc[p] = "L109"
          /\ getCurrentPayerNonce(p, a, "L113")
          /\ UNCHANGED <<wake, pending, ops, issued>>
       \/ /\ pc[p] = "L113"
          /\ LET start == Unix(now + Seconds(TIME_UNTIL_DELEGATING_BEGINS))
                 end == Unix(now + Seconds(TIME_UNTIL_DELEGATING_ENDS))
                 n == PayerNonceArg(loc[p].currentPayerNonce)
                 tx == Txn("addDelegator", a, n, loc[p].nodeId, loc[p].amount,
                           start, end, "unsigned")
             IN  /\ SawOp(p, "addDelegator", a, n)
                 /\ \/ /\ RpcFails(p, "P.AddDefaultSubnetDelegator", a,
                                   <<"Failed", "to", "add", "default", "subnet", "delegator">>)
                       /\ loc' = [loc EXCEPT ![p].startTime = start]
                    \/ /\ SawRpc(p, "P.AddDefaultSubnetDelegator", a, TRUE, 0, FALSE)
                       /\ loc' = [loc EXCEPT ![p].startTime = start, ![p].endTime = end,
                                             ![p].unsignedTxn = <<tx>>]
                       /\ Goto(p, "L124")
          /\ UNCHANGED <<wake, pending, issued>>
       \/ /\ pc[p] = "L124"
          /\ SignStep(p, a, "L132")
          /\ UNCHANGED <<wake, pending, ops, issued>>
       \/ /\ pc[p] = "L132"
          /\ \/ /\ RpcFails(p, "P.IssueTx", a, <<"Failed", "to", "issue", "staker", "transaction.">>)
                /\ UNCHANGED <<pending, issued>>
             \/ /\ SawRpc(p, "P.IssueTx", a, TRUE, 0, FALSE)
                /\ pending' = pending \cup {loc[p].signedTxn[1]}
                /\ SawIssue(p, loc[p].signedTxn[1])
                /\ Goto(p, "L136")
          /\ UNCHANGED <<wake, loc, ops>>
       \/ /\ pc[p] = "L136"
          /\ IF GateHolds(Unix(now), loc[p].startTime)
             THEN /\ Sleep(p, POLL_INTERVAL)
                  /\ SawSleep(p)
                  /\ Goto(p, "L136")
             ELSE /\ Return(p, NoStr, NilErr)
                  /\ UNCHANGED <<wake, hist>>
          /\ UNCHANGED <<loc, pending, ops, issued>>
    /\ UNCHANGED <<networkAcceptanceTimeout, wf, now, nonce, balance, validators, xtx,
                   importInputs, waitRes>>

(***************************************************************************)
(* AddValidatorOnSubnet (lines 142-180).                                   *)
(***************************************************************************)
AddValidatorOnSubnet(p) ==
    /\ Awake(p)
    /\ LET a == loc[p].pchainAddress IN
       \/ /\ pc[p] = "L147"
          /\ getCurrentPayerNonce(p, a, "L151")
          /\ UNCHANGED <<wake, pending, ops, issued>>
       \/ /\ pc[p] = "L151"
          /\ LET start == Unix(now + Seconds(TIME_UNTIL_STAKING_BEGINS))
                 end == Unix(now + Seconds(TIME_UNTIL_STAKING_ENDS))
                 n == PayerNonceArg(loc[p].currentPayerNonce)
                 tx == Txn("addValidator", a, n, loc[p].nodeId, loc[p].amount,
                           start, end, "unsigned")
             IN  /\ SawOp(p, "addValidator", a, n)
                 /\ \/ /\ RpcFails(p, "P.AddDefaultSubnetValidator", a,
                                   <<"Failed", "to", "add", "default", "subnet", "staker">>)
                       /\ loc' = [loc EXCEPT ![p].startTime = start]
                    \/ /\ SawRpc(p, "P.AddDefaultSubnetValidator", a, TRUE, 0, FALSE)
                       /\ loc' = [loc EXCEPT ![p].startTime = start, ![p].endTime = end,
                                             ![p].unsignedTxn = <<tx>>]
                       /\ Goto(p, "L163")
          /\ UNCHANGED <<wake, pending, issued>>
       \/ /\ pc[p] = "L163"
          /\ SignStep(p, a, "L171")
          /\ UNCHANGED <<wake, pending, ops, issued>>
       \/ /\ pc[p] = "L171"
          /\ \/ /\ RpcFails(p, "P.IssueTx", a, <<"Failed", "to", "issue", "staker", "transaction.">>)
                /\ UNCHANGED <<pending, issued>>
             \/ /\ SawRpc(p, "P.IssueTx", a, TRUE, 0, FALSE)
                /\ pending' = pending \cup {loc[p].signedTxn[1]}
                /\ SawIssue(p, loc[p].signedTxn[1])
                /\ Goto(p, "L175")
          /\ UNCHANGED <<wake, loc, ops>>
       \/ /\ pc[p] = "L175"
          /\ IF GateHolds(Unix(now), loc[p].startTime)
             THEN /\ Sleep(p, POLL_INTERVAL)
                  /\ SawSleep(p)
                  /\ Goto(p, "L175")
             ELSE \* runner.waitForValidatorAddition(nodeId, nil)
                  /\ Call(p, "L346", "L179")
                  /\ UNCHANGED <<wake, hist>>
          /\ UNCHANGED <<loc, pending, ops, issued>>
       \/ /\ pc[p] = "L179"
          \* The value waitForValidatorAddition returned is not read: `return nil`.
          /\ Return(p, NoStr, NilErr)
          /\ UNCHANGED <<wake, loc, hist, pending, ops, issued>>
    /\ UNCHANGED <<networkAcceptanceTimeout, wf, now, nonce, balance, validators, xtx,
                   importInputs, waitRes>>

(***************************************************************************)
(* CreateAndSeedXChainAccountFromGenesis (lines 188-228).                  *)
(***************************************************************************)
\* A variant that returns the error of CreateUser.
CreateUserStep_Propagates(p, okLabel) ==
    \/ RpcFails(p, "Keystore.CreateUser", NoStr, <<"Could", "not", "create", "user.">>)
    \/ /\ SawRpc(p, "Keystore.CreateUser", NoStr, TRUE, 0, FALSE)
       /\ Goto(p, okLabel)

\* KeystoreApi().CreateUser (lines 193-196, 197-200): the error is wrapped
\* by stacktrace.Propagate, the result of which is dropped.
CreateUserStep(p, okLabel) ==
    /\ \E ok \in BOOLEAN : SawRpc(p, "Keystore.CreateUser", NoStr, ok, 0, TRUE)
    /\ Goto(p, okLabel)

CreateAndSeedXChainAccountFromGenesis(p) ==
    /\ Awake(p)
    /\ \/ /\ pc[p] = "L193"
          /\ CreateUserStep(p, "L197")
          /\ UNCHANGED <<loc, xtx>>
       \/ /\ pc[p] = "L197"
          /\ CreateUserStep(p, "L201")
          /\ UNCHANGED <<loc, xtx>>
       \/ /\ pc[p] = "L201"
          /\ \/ RpcFails(p, "Info.GetNodeId", NoStr, <<"Could", "not", "get", "node", "id">>)
             \/ /\ SawRpc(p, "Info.GetNodeId", NoStr, TRUE, 0, FALSE)
                /\ Goto(p, "L205")
          /\ UNCHANGED <<loc, xtx>>
       \/ /\ pc[p] = "L205"
          /\ \/ RpcFails(p, "X.ImportKey", NoStr,
                         <<"Failed", "to", "take", "control", "of", "genesis", "account.">>)
             \/ /\ SawRpc(p, "X.ImportKey", NoStr, TRUE, 0, FALSE)
                /\ Goto(p, "L214")
          /\ UNCHANGED <<loc, xtx>>
       \/ /\ pc[p] = "L214"
          /\ \/ /\ RpcFails(p, "X.CreateAddress", NoStr,
                            <<"Failed", "to", "create", "address", "on", "XChain.">>)
                /\ UNCHANGED loc
             \/ \E x \in XAddrs :
                   /\ SawRpc(p, "X.CreateAddress", NoStr, TRUE, 0, FALSE)
                   /\ loc' = [loc EXCEPT ![p].testAccountAddress = x]
                   /\ Goto(p, "L219")
          /\ UNCHANGED xtx
       \/ /\ pc[p] = "L219"
          /\ \/ /\ RpcFails(p, "X.Send", NoStr,
                            <<"Failed", "to", "send", "AVA", "to", "test", "account">>)
                /\ UNCHANGED <<loc, xtx>>
             \/ /\ SawRpc(p, "X.Send", NoStr, TRUE, 0, FALSE)
                /\ xtx' = Append(xtx, "Processing")
                /\ loc' = [loc EXCEPT ![p].txnId = Len(xtx) + 1]
                \* runner.waitForXchainTransactionAcceptance(txnId)
                /\ Call(p, "L324", "L224")
       \/ /\ pc[p] = "L224"
          /\ IF ~ret[p].err.nil
             THEN Return(p, NoStr, Propagate(ret[p].err,
                      <<"Failed", "to", "wait", "for", "transaction", "acceptance.">>))
             ELSE Return(p, loc[p].testAccountAddress, NilErr)
          /\ UNCHANGED <<loc, xtx, hist>>
    /\ UNCHANGED <<networkAcceptanceTimeout, wf, wake, now, nonce, balance, validators,
                   pending, importInputs, waitRes, ops, issued>>

(***************************************************************************)
(* TransferAvaXChainToPChain (lines 235-266).                              *)
(***************************************************************************)
TransferAvaXChainToPChain(p) ==
    /\ Awake(p)
    /\ LET a == loc[p].pchainAddress IN
       \/ /\ pc[p] = "L240"
          /\ \/ /\ RpcFails(p, "P.CreateAccount", NoStr,
                            <<"Failed", "to", "create", "new", "account", "on", "PChain">>)
                /\ UNCHANGED loc
             \/ \E new \in PAddrs :
                   /\ SawRpc(p, "P.CreateAccount", new, TRUE, 0, FALSE)
                   /\ loc' = [loc EXCEPT ![p].pchainAddress = new]
                   /\ Goto(p, "L244")
          /\ UNCHANGED <<xtx, pending, ops, issued>>
       \/ /\ pc[p] = "L244"
          /\ \/ /\ RpcFails(p, "X.ExportAVA", a,
                            <<"Failed", "to", "export", "AVA", "to", "pchainAddress">>)
                /\ UNCHANGED <<loc, xtx>>
             \/ /\ SawRpc(p, "X.ExportAVA", a, TRUE, 0, FALSE)
                /\ xtx' = Append(xtx, "Processing")
                /\ loc' = [loc EXCEPT ![p].txnId = Len(xtx) + 1]
                /\ Call(p, "L324", "L249")
          /\ UNCHANGED <<pending, ops, issued>>
       \/ /\ pc[p] = "L249"
          /\ IF ~ret[p].err.nil
             THEN Return(p, NoStr, Propagate(ret[p].err, <<>>))
             ELSE Goto(p, "L252")
          /\ UNCHANGED <<loc, hist, xtx, pending, ops, issued>>
       \/ /\ pc[p] = "L252"
          /\ getCurrentPayerNonce(p, a, "L256")
          /\ UNCHANGED <<xtx, pending, ops, issued>>
       \/ /\ pc[p] = "L256"
          /\ LET n == PayerNonceArg(loc[p].currentPayerNonce)
                 tx == Txn("importAVA", a, n, "", loc[p].amount, 0, 0, "signed")
             IN  /\ SawOp(p, "importAVA", a, n)
                 /\ \/ /\ RpcFails(p, "P.ImportAVA", a,
                                   <<"Failed", "import", "AVA", "to", "pchainAddress">>)
                       /\ UNCHANGED loc
                    \/ /\ SawRpc(p, "P.ImportAVA", a, TRUE, 0, FALSE)
                       /\ loc' = [loc EXCEPT ![p].signedTxn = <<tx>>]
                       /\ Goto(p, "L260")
          /\ UNCHANGED <<xtx, pending, issued>>
       \/ /\ pc[p] = "L260"
          /\ \/ /\ RpcFails(p, "P.IssueTx", a,
                            <<"Failed", "to", "issue", "importAVA", "transaction.">>)
                /\ UNCHANGED <<pending, issued>>
             \/ /\ SawRpc(p, "P.IssueTx", a, TRUE, 0, FALSE)
                /\ pending' = pending \cup {loc[p].signedTxn[1]}
                /\ SawIssue(p, loc[p].signedTxn[1])
                \* runner.waitForPchainNonZeroBalance(pchainAddress)
                /\ Call(p, "L376", "L265")
          /\ UNCHANGED <<loc, xtx, ops>>
       \/ /\ pc[p] = "L265"
          \* The value waitForPchainNonZeroBalance returned is not read.
          /\ Return(p, a, NilErr)
          /\ UNCHANGED <<loc, hist, xtx, pending, ops, issued>>
    /\ UNCHANGED <<networkAcceptanceTimeout, wf, wake, now, nonce, balance, validators,
                   importInputs, waitRes>>

(***************************************************************************)
(* TransferAvaPChainToXChain (lines 272-320).                              *)
(***************************************************************************)
\* The loop around the X-chain ImportAVA (lines 300-314): with no error the
\* workflow goes on to the acceptance wait, with the not-yet-final error it
\* calls ImportAVA again, with any other error it returns.
\* A variant with a ceiling on the number of attempts.
ImportRetryDecision_Capped(err, attempts) ==
    IF err.nil THEN "wait"
    ELSE IF Contains(err.msg, NO_IMPORT_INPUTS_ERROR_STR) /\ attempts < 2 THEN "retry"
    ELSE "fail"

ImportRetryDecision(err, attempts) ==
    IF err.nil THEN "wait"
    ELSE IF Contains(err.msg, NO_IMPORT_INPUTS_ERROR_STR) THEN "retry"
    ELSE "fail"

\* client.XChainApi().ImportAVA(xchainAddress, username, password): the
\* call and the assignment of txnId, err.
XChainImportAVA(p) ==
    \/ \* nothing to import yet: the export has not been applied
       /\ importInputs = 0
       /\ loc[p].importAttempts < MaxImportAttempts
       /\ SawRpc(p, "X.ImportAVA", loc[p].xchainAddress, FALSE, 0, TRUE)
       /\ loc' = [loc EXCEPT ![p].importErr = NoImportInputsFailure,
                             ![p].importAttempts = @ + 1]
       /\ UNCHANGED <<xtx, importInputs>>
    \/ /\ SawRpc(p, "X.ImportAVA", loc[p].xchainAddress, FALSE, 0, FALSE)
       /\ loc' = [loc EXCEPT ![p].importErr = OtherImportFailure,
                             ![p].importAttempts = @ + 1]
       /\ UNCHANGED <<xtx, importInputs>>
    \/ /\ importInputs > 0
       /\ SawRpc(p, "X.ImportAVA", loc[p].xchainAddress, TRUE, 0, FALSE)
       /\ importInputs' = importInputs - 1
       /\ xtx' = Append(xtx, "Processing")
       /\ loc' = [loc EXCEPT ![p].txnId = Len(xtx) + 1, ![p].importErr = NilErr,
                             ![p].importAttempts = @ + 1]

\* The head of the loop, evaluated on the error of the last ImportAVA.
ImportLoopHead(p, err, attempts) ==
    CASE ImportRetryDecision(err, attempts) = "wait" -> Call(p, "L324", "L316")
      [] ImportRetryDecision(err, attempts) = "retry" -> Goto(p, "L309")
      [] OTHER -> Return(p, NoStr, Propagate(err,
                      <<"Failed", "import", "AVA", "to", "xchainAddress">>))

TransferAvaPChainToXChain(p) ==
    /\ Awake(p)
    /\ LET a == loc[p].pchainAddress IN
       \/ /\ pc[p] = "L281"
          /\ getCurrentPayerNonce(p, a, "L286")
          /\ UNCHANGED <<wake, xtx, pending, importInputs, ops, issued>>
       \/ /\ pc[p] = "L286"
          /\ LET n == PayerNonceArg(loc[p].currentPayerNonce)
                 to == TrimPrefix(loc[p].xchainAddress, XCHAIN_ADDRESS_PREFIX)
                 tx == Txn("exportAVA", a, n, "", loc[p].amount, 0, 0, "unsigned")
             IN  /\ SawOp(p, "exportAVA", a, n)
                 /\ \/ /\ RpcFails(p, "P.ExportAVA", a,
                                   <<"Failed", "to", "export", "AVA", "to", "xchainAddress">>)
                       /\ UNCHANGED loc
                    \/ /\ SawRpc(p, "P.ExportAVA", a, TRUE, 0, FALSE)
                       /\ loc' = [loc EXCEPT ![p].unsignedTxn = <<tx>>,
                                             ![p].exportTo = to]
                       /\ Goto(p, "L290")
          /\ UNCHANGED <<wake, xtx, pending, importInputs, issued>>
       \/ /\ pc[p] = "L290"
          /\ SignStep(p, a, "L294")
          /\ UNCHANGED <<wake, xtx, pending, importInputs, ops, issued>>
       \/ /\ pc[p] = "L294"
          /\ \/ /\ RpcFails(p, "P.IssueTx", a,
                            <<"Failed", "to", "issue", "importAVA", "transaction.">>)
                /\ UNCHANGED <<pending, issued>>
             \/ /\ SawRpc(p, "P.IssueTx", a, TRUE, 0, FALSE)
                /\ pending' = pending \cup {loc[p].signedTxn[1]}
                /\ SawIssue(p, loc[p].signedTxn[1])
                /\ Goto(p, "L299")
          /\ UNCHANGED <<wake, loc, xtx, importInputs, ops>>
       \/ /\ pc[p] = "L299"
          /\ XChainImportAVA(p)
          /\ ImportLoopHead(p, loc'[p].importErr, loc'[p].importAttempts)
          /\ UNCHANGED <<wake, pending, ops, issued>>
       \/ /\ pc[p] = "L309"
          /\ XChainImportAVA(p)
          /\ Goto(p, "L310")
          /\ UNCHANGED <<wake, pending, ops, issued>>
       \/ /\ pc[p] = "L310"
          /\ Sleep(p, IMPORT_AVA_TO_XCHAIN_TIMEOUT)
          /\ SawSleep(p)
          /\ Goto(p, "L300")
          /\ UNCHANGED <<loc, xtx, pending, importInputs, ops, issued>>
       \/ /\ pc[p] = "L300"
          /\ ImportLoopHead(p, loc[p].importErr, loc[p].importAttempts)
          /\ UNCHANGED <<wake, loc, hist, xtx, pending, importInputs, ops, issued>>
       \/ /\ pc[p] = "L316"
          /\ IF ~ret[p].err.nil
             THEN Return(p, NoStr, Propagate(ret[p].err,
                      <<"Failed", "to", "wait", "for", "acceptance", "of", "transaction",
                        "on", "XChain.">>))
             ELSE Return(p, loc[p].xchainAddress, NilErr)
          /\ UNCHANGED <<wake, loc, hist, xtx, pending, importInputs, ops, issued>>
    /\ UNCHANGED <<networkAcceptanceTimeout, wf, now, nonce, balance, validators, waitRes>>

\* A variant that goes on to the transfer whatever the first seeding returned.
GetFundsAndStartValidating_GoesOn(p) ==
    /\ Awake(p)
    /\ \/ /\ pc[p] = "L79"
          /\ \/ /\ RpcFails(p, "Info.GetNodeId", NoStr,
                            <<"Could", "not", "get", "staker", "node", "ID.">>)
                /\ UNCHANGED loc
             \/ /\ SawRpc(p, "Info.GetNodeId", NoStr, TRUE, 0, FALSE)
                /\ loc' = [loc EXCEPT ![p].stakerNodeId = SelfNodeId]
                \* runner.CreateAndSeedXChainAccountFromGenesis(seedAmount)
                /\ Call(p, "L193", "L84")
       \/ /\ pc[p] = "L84"
          /\ Call(p, "L240", "L88")
          /\ UNCHANGED <<loc, hist>>
       \/ /\ pc[p] = "L88"
          /\ IF ~ret[p].err.nil
             THEN /\ Return(p, NoStr, Propagate(ret[p].err,
                      <<"Could", "not", "transfer", "AVA", "from", "XChain", "to", "PChain">>))
                  /\ UNCHANGED loc
             ELSE /\ loc' = [loc EXCEPT ![p].stakerPchainAddress = ret[p].val]
                  \* runner.CreateAndSeedXChainAccountFromGenesis(seedAmount)
                  /\ Call(p, "L193", "L92")
          /\ UNCHANGED hist
       \/ /\ pc[p] = "L92"
          /\ IF ~ret[p].err.nil
             THEN /\ Return(p, NoStr, Propagate(ret[p].err,
                      <<"Could", "not", "seed", "XChain", "account", "from", "Genesis.">>))
                  /\ UNCHANGED loc
             ELSE \* runner.AddValidatorOnSubnet(stakerNodeId, stakerPchainAddress, stakeAmount)
                  /\ loc' = [loc EXCEPT ![p].nodeId = loc[p].stakerNodeId,
                                        ![p].pchainAddress = loc[p].stakerPchainAddress]
                  /\ Call(p, "L147", "L97")
          /\ UNCHANGED hist
       \/ /\ pc[p] = "L97"
          /\ IF ~ret[p].err.nil
             THEN Return(p, NoStr, Propagate(ret[p].err,
                      <<"Could", "not", "add", "staker", "to", "default", "subnet.">>))
             ELSE Return(p, NoStr, NilErr)
          /\ UNCHANGED <<loc, hist>>
    /\ UNCHANGED <<networkAcceptanceTimeout, wf, wake, nodeVars, waitRes, ops, issued>>

(***************************************************************************)
(* GetFundsAndStartValidating (lines 75-101).                              *)
(***************************************************************************)
GetFundsAndStartValidating(p) ==
    /\ Awake(p)
    /\ \/ /\ pc[p] = "L79"
          /\ \/ /\ RpcFails(p, "Info.GetNodeId", NoStr,
                            <<"Could", "not", "get", "staker", "node", "ID.">>)
                /\ UNCHANGED loc
             \/ /\ SawRpc(p, "Info.GetNodeId", NoStr, TRUE, 0, FALSE)
                /\ loc' = [loc EXCEPT ![p].stakerNodeId = SelfNodeId]
                \* runner.CreateAndSeedXChainAccountFromGenesis(seedAmount)
                /\ Call(p, "L193", "L84")
       \/ /\ pc[p] = "L84"
          /\ IF ~ret[p].err.nil
             THEN Return(p, NoStr, Propagate(ret[p].err,
                      <<"Could", "not", "seed", "XChain", "account", "from", "Genesis.">>))
             ELSE \* runner.TransferAvaXChainToPChain(seedAmount)
                  Call(p, "L240", "L88")
          /\ UNCHANGED <<loc, hist>>
       \/ /\ pc[p] = "L88"
          /\ IF ~ret[p].err.nil
             THEN /\ Return(p, NoStr, Propagate(ret[p].err,
                      <<"Could", "not", "transfer", "AVA", "from", "XChain", "to", "PChain">>))
                  /\ UNCHANGED loc
             ELSE /\ loc' = [loc EXCEPT ![p].stakerPchainAddress = ret[p].val]
                  \* runner.CreateAndSeedXChainAccountFromGenesis(seedAmount)
                  /\ Call(p, "L193", "L92")
          /\ UNCHANGED hist
       \/ /\ pc[p] = "L92"
          /\ IF ~ret[p].err.nil
             THEN /\ Return(p, NoStr, Propagate(ret[p].err,
                      <<"Could", "not", "seed", "XChain", "account", "from", "Genesis.">>))
                  /\ UNCHANGED loc
             ELSE \* runner.AddValidatorOnSubnet(stakerNodeId, stakerPchainAddress, stakeAmount)
                  /\ loc' = [loc EXCEPT ![p].nodeId = loc[p].stakerNodeId,
                                        ![p].pchainAddress = loc[p].stakerPchainAddress]
                  /\ Call(p, "L147", "L97")
          /\ UNCHANGED hist
       \/ /\ pc[p] = "L97"
          /\ IF ~ret[p].err.nil
             THEN Return(p, NoStr, Propagate(ret[p].err,
                      <<"Could", "not", "add", "staker", "to", "default", "subnet.">>))
             ELSE Return(p, NoStr, NilErr)
          /\ UNCHANGED <<loc, hist>>
    /\ UNCHANGED <<networkAcceptanceTimeout, wf, wake, nodeVars, waitRes, ops, issued>>

(***************************************************************************)
(* The JSON-RPC requester (gecko_client/json_rpc_requester.go).            *)
(*                                                                         *)
(* A call of makeRpcRequest is a process whose pc is "R<line>", the line   *)
(* of json_rpc_requester.go; "R88w" is the process blocked inside          *)
(* http.Post.  A response body is a sequence of JSON tokens; the value     *)
(* tokens stand for a string ("s"), a number ("1"), null, and objects:     *)
(* "obj" (no code member), "err0" (code 0) and "err5" (code 5).            *)
(***************************************************************************)
StatusOK == 200
StatusCodes == {200, 204, 500}

JsonStrings == {"s"}
JsonNumbers == {"1"}
JsonObjects == {"obj", "err0", "err5"}
JsonValues == JsonStrings \cup JsonNumbers \cup JsonObjects \cup {"null"}
JsonKeys == {"jsonrpc", "error", "result", "id", "x"}

\* The response bodies the node may send.
Bodies ==
    { <<"{", "jsonrpc", ":", "s", ",", "result", ":", "obj", ",", "id", ":", "1", "}">>,
      <<"{", "jsonrpc", ":", "s", ",", "error", ":", "err5", ",", "id", ":", "1", "}">>,
      <<"{", "jsonrpc", ":", "s", ",", "error", ":", "err0", ",", "result", ":", "obj", "}">>,
      <<"{", "jsonrpc", ":", "s", ",", "id", ":", "1", "}">>,
      <<"{", "}">>,
      <<"null">>,
      <<"{", "jsonrpc", ":", "s", ",", "result", ":", "obj">>,
      <<"{", "jsonrpc", ":", "s", ",", "result", ":", "s", ",", "id", ":", "1", "}">>,
      <<"{", "result", ":", "obj", ",", "}">>,
      <<"<html>">>,
      <<>> }

\* The zero value of JsonRpcResponse (lines 35-40), with a mark for a
\* Result that was set.
ZeroResponse == [JsonRpcVersion |-> "", ErrorCode |-> 0, HasResult |-> FALSE, Id |-> 0]

\* json.Unmarshal of one member into the field of JsonRpcResponse that its
\* key names; a key that names no field is skipped, null has no effect, a
\* value of another JSON type than the field's is an error.
AssignField(resp, key, value) ==
    CASE value = "null" \/ key \notin {"jsonrpc", "error", "result", "id"} ->
             [ok |-> TRUE, resp |-> resp]
      [] key = "jsonrpc" ->
             [ok |-> value \in JsonStrings, resp |-> [resp EXCEPT !.JsonRpcVersion = value]]
      [] key = "error" ->
             [ok |-> value \in JsonObjects,
              resp |-> [resp EXCEPT !.ErrorCode = IF value = "err5" THEN 5 ELSE 0]]
      [] key = "result" ->
             [ok |-> value \in JsonObjects, resp |-> [resp EXCEPT !.HasResult = TRUE]]
      [] OTHER ->
             [ok |-> value \in JsonNumbers, resp |-> [resp EXCEPT !.Id = 1]]

\* The members of an object: key ":" value, separated by ",".
RECURSIVE UnmarshalMembers(_, _)
UnmarshalMembers(toks, resp) ==
    IF Len(toks) < 3 \/ toks[1] \notin JsonKeys \/ toks[2] # ":" \/ toks[3] \notin JsonValues
    THEN [ok |-> FALSE, resp |-> resp]
    ELSE LET r == AssignField(resp, toks[1], toks[3])
         IN  IF ~r.ok THEN r
             ELSE IF Len(toks) = 3 THEN r
             ELSE IF toks[4] # "," THEN [ok |-> FALSE, resp |-> resp]
             ELSE UnmarshalMembers(SubSeq(toks, 5, Len(toks)), r.resp)

\* json.Unmarshal(responseBodyBytes, &response) (line 114).
Unmarshal(body) ==
    IF body = <<"null">> \/ body = <<"{", "}">> THEN [ok |-> TRUE, resp |-> ZeroResponse]
    ELSE IF Len(body) < 2 \/ body[1] # "{" \/ body[Len(body)] # "}"
    THEN [ok |-> FALSE, resp |-> ZeroResponse]
    ELSE UnmarshalMembers(SubSeq(body, 2, Len(body) - 1), ZeroResponse)

\* strings.TrimLeft(endpoint, "/") (line 66).
RECURSIVE TrimLeft(_, _)
TrimLeft(s, c) == IF s # <<>> /\ s[1] = c THEN TrimLeft(Tail(s), c) ELSE s

\* The params of a call: a map that json.Marshal renders, or one holding a
\* value it has no rendering for.
ParamsSet == {<<>>, <<"k", "v">>, <<"k", "chan">>}
Endpoints == {<<"/", "ext", "P">>, <<"ext", "P">>}

\* json.Marshal(request) (line 74).
Marshal(method, params) ==
    IF \E i \in 1..Len(params) : params[i] = "chan"
    THEN [ok |-> FALSE, bytes |-> <<>>]
    ELSE [ok |-> TRUE, bytes |-> <<"{", "jsonrpc", "method", method, "params">> \o params
                                    \o <<"id", "1", "}">>]

\* A variant of the status test that lets every 2xx status through.
StatusAccepted_Any2xx(statusCode) == statusCode \in 200..299

\* `if statusCode != 200` (line 106), negated.
StatusAccepted(statusCode) == statusCode = StatusOK

\* The Timeout of the client that sends the request.  Line 88 calls the
\* package function http.Post, which sends with http.DefaultClient, whose
\* Timeout is zero: no timeout.  requester.client (line 56) is not used.
PostTimeout(requesterClientTimeout) == 0

\* What follows the response: ioutil.ReadAll, the status test, json.Unmarshal
\* and the test of the embedded error code (lines 100-120).
HandleResponse(p, readOk) ==
    LET body == loc[p].resp.body
        u == Unmarshal(body)
    IN  IF ~readOk
        THEN Return(p, NoStr, Propagate(NewError("transport", <<"unexpected", "EOF">>),
                        <<"Error", "occurred", "when", "reading", "response", "body">>))
        ELSE IF ~StatusAccepted(loc[p].resp.status)
        THEN Return(p, NoStr, NewError("status", <<"Received", "response", "with", "non-200",
                                                    "code">> \o body))
        ELSE IF ~u.ok
        THEN Return(p, NoStr, Propagate(NewError("unmarshal", <<"invalid", "JSON">>),
                        <<"Error", "unmarshalling", "JSON", "response">>))
        ELSE IF u.resp.ErrorCode # 0
        THEN Return(p, NoStr, NewError("rpcerror", <<"RPC", "call", "failed:">>))
        ELSE Return(p, body, NilErr)

(***************************************************************************)
(* makeRpcRequest (lines 63-121).                                          *)
(***************************************************************************)
makeRpcRequest(p) ==
    /\ \/ /\ pc[p] = "R66"
          /\ LET m == Marshal(loc[p].method, loc[p].params) IN
             IF ~m.ok
             THEN /\ Return(p, NoStr, Propagate(NewError("marshal", <<"unsupported", "type">>),
                               <<"Could", "not", "marshall", "request">>))
                  /\ loc' = [loc EXCEPT ![p].endpoint = TrimLeft(@, "/")]
             ELSE /\ loc' = [loc EXCEPT ![p].endpoint = TrimLeft(@, "/"),
                                        ![p].requestBodyBytes = m.bytes]
                  /\ Goto(p, "R88")
          /\ UNCHANGED now
       \/ /\ pc[p] = "R88"
          \* http.Post sends the request
          /\ loc' = [loc EXCEPT ![p].posts = @ + 1, ![p].sentAt = now,
                                ![p].url = <<"http://">> \o loc[p].endpoint]
          /\ Goto(p, "R88w")
          /\ UNCHANGED now
       \/ /\ pc[p] = "R88w"
          /\ \/ \* the connection fails
                /\ Return(p, NoStr, Propagate(NewError("transport", <<"connection", "refused">>),
                               <<"Error", "occurred", "when", "making", "JSON", "RPC", "POST",
                                 "request">>))
                /\ UNCHANGED <<loc, now>>
             \/ \* the client's timeout, when it has one, expires
                /\ PostTimeout(loc[p].clientTimeout) > 0
                /\ now - loc[p].sentAt >= PostTimeout(loc[p].clientTimeout)
                /\ Return(p, NoStr, Propagate(NewError("transport", <<"Client.Timeout",
                                                                       "exceeded">>),
                               <<"Error", "occurred", "when", "making", "JSON", "RPC", "POST",
                                 "request">>))
                /\ UNCHANGED <<loc, now>>
             \/ \* the response arrives
                \E st \in StatusCodes, b \in Bodies :
                   /\ loc' = [loc EXCEPT ![p].resp = [status |-> st, body |-> b],
                                         ![p].answered = TRUE]
                   /\ Goto(p, "R100")
                   /\ UNCHANGED now
             \/ \* the node has not answered yet: time passes
                /\ now - loc[p].sentAt < MaxRpcWait
                /\ PostTimeout(loc[p].clientTimeout) > 0
                      => now - loc[p].sentAt < PostTimeout(loc[p].clientTimeout)
                /\ now' = now + 1
                /\ UNCHANGED <<pc, stack, ret, loc>>
       \/ /\ pc[p] = "R100"
          /\ \E readOk \in BOOLEAN : HandleResponse(p, readOk)
          /\ UNCHANGED <<loc, now>>
    /\ UNCHANGED <<networkAcceptanceTimeout, wf, wake, nonce, balance, validators, xtx,
                   pending, importInputs, obsVars>>

(***************************************************************************)
(* Initial states.                                                         *)
(***************************************************************************)
InitLoc ==
    [nodeId |-> SelfNodeId, pchainAddress |-> <<"P1">>, xchainAddress |-> <<"X-", "a1">>,
     amount |-> 5, stakerNodeId |-> "", stakerPchainAddress |-> NoStr,
     currentPayerNonce |-> 0, startTime |-> 0, endTime |-> 0,
     unsignedTxn |-> <<>>, signedTxn |-> <<>>, txnId |-> 0,
     testAccountAddress |-> NoStr, exportTo |-> NoStr, importErr |-> NilErr, importAttempts |-> 0,
     status |-> "", validators |-> <<>>, balance |-> NoStr, pollStartTime |-> 0]

InitRet == [val |-> NoStr, err |-> NilErr]
InitWaitRes == [fn |-> "none", err |-> NilErr, elapsed |-> 0]

InitObs ==
    /\ hist = [p \in Procs |-> InitHist]
    /\ waitRes = [p \in Procs |-> InitWaitRes]
    /\ ops = {}
    /\ issued = {}

\* A wait primitive called on its own: the transaction, the validator
\* registration or the import it waits for may or may not be under way.
WaitPrimitives ==
    { [fn |-> "waitForXchainTransactionAcceptance", entry |-> "L324"],
      [fn |-> "waitForValidatorAddition", entry |-> "L346"],
      [fn |-> "waitForPchainNonZeroBalance", entry |-> "L376"] }

\* The node at the start: no X-chain transaction, nothing issued.
InitNode ==
    /\ now \in 0..(TicksPerSec - 1)
    /\ balance = [a \in PAddrs |-> 0]
    /\ validators = {"n2"}
    /\ xtx = <<>>
    /\ pending = {}
    /\ importInputs = 0

InitWait ==
    /\ networkAcceptanceTimeout \in 0..MaxTimeout
    /\ stack = [p \in Procs |-> <<>>]
    /\ loc = [p \in Procs |-> [InitLoc EXCEPT !.txnId = 1]]
    /\ ret = [p \in Procs |-> InitRet]
    /\ wake = [p \in Procs |-> 0]
    /\ now \in 0..(TicksPerSec - 1)
    /\ \E n \in 0..MaxNonce : nonce = [a \in PAddrs |-> n]
    /\ \E w \in WaitPrimitives :
          /\ wf = [p \in Procs |-> IF p = 1 THEN w.fn ELSE "none"]
          /\ pc = [p \in Procs |-> IF p = 1 THEN w.entry ELSE "idle"]
          /\ xtx \in IF w.entry = "L324"
                     THEN {<<"Processing">>, <<TRANSACTION_ACCEPTED_STATUS>>, <<"Rejected">>}
                     ELSE {<<>>}
          /\ validators \in IF w.entry = "L346" THEN SUBSET NodeIds ELSE {{"n2"}}
          /\ balance \in IF w.entry = "L376"
                         THEN {[a \in PAddrs |-> IF a = <<"P1">> THEN b ELSE 0] : b \in {0, 5}}
                         ELSE {[a \in PAddrs |-> 0]}
          /\ pending \in
               CASE w.entry = "L346" ->
                      SUBSET {Txn("addValidator", <<"P1">>, nonce[<<"P1">>] + 1, SelfNodeId, 5,
                                  0, 0, "signed")}
                 [] w.entry = "L376" ->
                      SUBSET {Txn("importAVA", <<"P1">>, nonce[<<"P1">>] + 1, "", 5, 0, 0, "signed")}
                 [] OTHER -> {{}}
    /\ importInputs = 0
    /\ InitObs

Workflows ==
    { [fn |-> "GetFundsAndStartValidating", entry |-> "L79"],
      [fn |-> "AddDelegatorOnSubnet", entry |-> "L109"],
      [fn |-> "AddValidatorOnSubnet", entry |-> "L147"],
      [fn |-> "CreateAndSeedXChainAccountFromGenesis", entry |-> "L193"],
      [fn |-> "TransferAvaXChainToPChain", entry |-> "L240"],
      [fn |-> "TransferAvaPChainToXChain", entry |-> "L281"] }

\* The workflows that take the P-chain address to operate on as an argument.
AddressWorkflows == {w \in Workflows : w.entry \in {"L109", "L147", "L281"}}

\* One workflow invocation, on a node with nothing under way.  The longest
\* workflow, GetFundsAndStartValidating, runs with the shorter timeouts.
Init ==
    /\ networkAcceptanceTimeout \in 0..MaxTimeout
    /\ \E w \in Workflows :
          /\ w.entry = "L79" => networkAcceptanceTimeout <= MaxFundsTimeout /\ now = 0
          /\ wf = [p \in Procs |-> IF p = 1 THEN w.fn ELSE "none"]
          /\ pc = [p \in Procs |-> IF p = 1 THEN w.entry ELSE "idle"]
          /\ \E n \in (IF w.entry \in {"L109", "L147"} THEN NodeIds
                       ELSE IF w.entry = "L79" THEN {""} ELSE {SelfNodeId}),
                x \in (IF w.entry = "L281" THEN {<<"X-", "a1">>, <<"a1">>}
                       ELSE {<<"X-", "a1">>}) :
                loc = [p \in Procs |-> [InitLoc EXCEPT !.nodeId = n, !.xchainAddress = x]]
    /\ stack = [p \in Procs |-> <<>>]
    /\ ret = [p \in Procs |-> InitRet]
    /\ wake = [p \in Procs |-> 0]
    /\ \E n \in 0..MaxNonce : nonce = [a \in PAddrs |-> n]
    /\ InitNode
    /\ InitObs

\* Two concurrent invocations of the workflows that operate on a P-chain
\* address given by the caller: the first on P1, the second on P1 or on P2.
\* (Which of the two is process 1 makes no difference: one order of each
\* pair of workflows is enough.)
InitConc ==
    /\ networkAcceptanceTimeout \in 0..MaxConcTimeout
    /\ \E w \in [Procs -> AddressWorkflows], a2 \in PAddrs :
          /\ w[1].entry = "L281" => w[2].entry = "L281"
          /\ w[1].entry = "L109" => w[2].entry # "L147"
          /\ wf = [p \in Procs |-> w[p].fn]
          /\ pc = [p \in Procs |-> w[p].entry]
          /\ loc = [p \in Procs |->
                     [InitLoc EXCEPT !.pchainAddress = IF p = 1 THEN <<"P1">> ELSE a2]]
    /\ stack = [p \in Procs |-> <<>>]
    /\ ret = [p \in Procs |-> InitRet]
    /\ wake = [p \in Procs |-> 0]
    /\ \E n \in 0..MaxNonce : nonce = [a \in PAddrs |-> IF a = <<"P1">> THEN 0 ELSE n]
    /\ InitNode
    /\ now = 0
    /\ InitObs

NextWait ==
    \/ \E p \in Procs : waitForXchainTransactionAcceptance(p)
    \/ \E p \in Procs : waitForValidatorAddition(p)
    \/ \E p \in Procs : waitForPchainNonZeroBalance(p)
    \/ NodeDecideXTx
    \/ NodeApplyPTx
    \/ Tick

SpecWait == InitWait /\ [][NextWait]_vars

Next ==
    \/ \E p \in Procs : GetFundsAndStartValidating(p)
    \/ \E p \in Procs : AddDelegatorOnSubnet(p)
    \/ \E p \in Procs : AddValidatorOnSubnet(p)
    \/ \E p \in Procs : CreateAndSeedXChainAccountFromGenesis(p)
    \/ \E p \in Procs : TransferAvaXChainToPChain(p)
    \/ \E p \in Procs : TransferAvaPChainToXChain(p)
    \/ \E p \in Procs : waitForXchainTransactionAcceptance(p)
    \/ \E p \in Procs : waitForValidatorAddition(p)
    \/ \E p \in Procs : waitForPchainNonZeroBalance(p)
    \/ NodeDecideXTx
    \/ NodeApplyPTx
    \/ Tick

Spec == Init /\ [][Next]_vars

NextConc ==
    \/ \E p \in Procs : AddDelegatorOnSubnet(p)
    \/ \E p \in Procs : AddValidatorOnSubnet(p)
    \/ \E p \in Procs : TransferAvaPChainToXChain(p)
    \/ \E p \in Procs : waitForXchainTransactionAcceptance(p)
    \/ \E p \in Procs : waitForValidatorAddition(p)
    \/ NodeDecideXTx
    \/ NodeApplyPTx
    \/ Tick

SpecConc == InitConc /\ [][NextConc]_vars

\* One call of makeRpcRequest on a requester made by
\* newGeckoJsonRpcRequester(ipAddr, port, requestTimeout) (lines 52-60).
InitRpcLoc ==
    [endpoint |-> <<>>, method |-> "m", params |-> <<>>, clientTimeout |-> 0,
     requestBodyBytes |-> <<>>, url |-> <<>>, posts |-> 0, sentAt |-> 0,
     resp |-> [status |-> 0, body |-> <<>>], answered |-> FALSE]

InitRpc ==
    /\ networkAcceptanceTimeout = 0
    /\ wf = [p \in Procs |-> IF p = 1 THEN "makeRpcRequest" ELSE "none"]
    /\ pc = [p \in Procs |-> IF p = 1 THEN "R66" ELSE "idle"]
    /\ \E e \in Endpoints, ps \in ParamsSet, t \in 1..MaxRequestTimeout :
          loc = [p \in Procs |-> [InitRpcLoc EXCEPT !.endpoint = e, !.params = ps,
                                                    !.clientTimeout = t]]
    /\ stack = [p \in Procs |-> <<>>]
    /\ ret = [p \in Procs |-> InitRet]
    /\ wake = [p \in Procs |-> 0]
    /\ nonce = [a \in PAddrs |-> 0]
    /\ InitNode
    /\ now = 0
    /\ InitObs

NextRpc == \E p \in Procs : makeRpcRequest(p)

SpecRpc == InitRpc /\ [][NextRpc]_vars

(***************************************************************************)
(* Properties.                                                             *)
(***************************************************************************)
Finished(p, fn) == pc[p] = "done" /\ wf[p] = fn

\* C1: AddValidatorOnSubnet returns success only if the node id was seen in
\* the validator list: when waitForValidatorAddition runs out of
\* networkAcceptanceTimeout without seeing it, AddValidatorOnSubnet returns
\* an error, not nil.
C1_ValidatorTimeoutIsReturned ==
    \A p \in Procs :
        ( /\ Finished(p, "AddValidatorOnSubnet")
          /\ waitRes[p].fn = "waitForValidatorAddition"
          /\ waitRes[p].err.kind = "timeout" )
        => ~ret[p].err.nil

\* C2: TransferAvaXChainToPChain returns success only if a non-zero balance
\* was seen: when waitForPchainNonZeroBalance runs out of
\* networkAcceptanceTimeout with the balance still "0", the workflow returns
\* an error, not the address with nil.
C2_BalanceTimeoutIsReturned ==
    \A p \in Procs :
        ( /\ Finished(p, "TransferAvaXChainToPChain")
          /\ waitRes[p].fn = "waitForPchainNonZeroBalance"
          /\ waitRes[p].err.kind = "timeout" )
        => ~ret[p].err.nil

PollLabels == {"L329", "L335", "L351", "L353", "L385", "L392"}

\* The condition a wait primitive waits for, on the last state it queried.
Awaited(p) ==
    CASE wf[p] = "waitForXchainTransactionAcceptance" ->
             loc[p].status = TRANSACTION_ACCEPTED_STATUS
      [] wf[p] = "waitForValidatorAddition" ->
             checkValidatorInValidators(loc[p].nodeId, loc[p].validators)
      [] wf[p] = "waitForPchainNonZeroBalance" -> loc[p].balance # <<"0">>
      [] OTHER -> FALSE

\* C3: with a non-negative networkAcceptanceTimeout, a wait primitive whose
\* queries all succeed never polls beyond the timeout plus one polling
\* interval, always has a next step while it polls, and returns nil exactly
\* when the last state it queried satisfies the awaited condition; otherwise
\* it returns the timeout error, at an elapsed time of at least the timeout
\* and less than the timeout plus one polling interval.
C3_WaitIsBounded ==
    \A p \in Procs :
        /\ pc[p] \in PollLabels =>
              /\ now - loc[p].pollStartTime
                    < networkAcceptanceTimeout + Seconds(POLL_INTERVAL)
              /\ ENABLED NextWait
        /\ (pc[p] = "done" /\ ~hist[p].failed) =>
              IF Awaited(p)
              THEN ret[p].err.nil
              ELSE /\ ret[p].err.kind = "timeout"
                   /\ waitRes[p].elapsed >= networkAcceptanceTimeout
                   /\ waitRes[p].elapsed
                         < networkAcceptanceTimeout + Seconds(POLL_INTERVAL)

\* A wait timed out strictly after the timeout, within the polling interval.
C3_TimedOutLate ==
    \E p \in Procs :
        /\ pc[p] = "done"
        /\ ret[p].err.kind = "timeout"
        /\ networkAcceptanceTimeout > 0
        /\ waitRes[p].elapsed > networkAcceptanceTimeout

\* C4: after a failed RPC call a workflow makes no further RPC call, and it
\* returns an error.
C4_FailureStopsWorkflow ==
    \A p \in Procs :
        hist[p].failed =>
            /\ ~hist[p].callAfterFail
            /\ pc[p] = "done" => ~ret[p].err.nil

\* C5: the payer nonce of every P-chain operation the runner constructs is
\* one more than the nonce returned by a successful GetAccount query on the
\* operation's address, and that query is the invocation's RPC call
\* immediately before the construction, so that no operation uses a nonce
\* read for an earlier one.
C5_NonceReadJustBeforeUse ==
    \A o \in ops :
        /\ o.prev.method = "P.GetAccount"
        /\ o.prev.ok
        /\ o.prev.addr = o.addr
        /\ o.nonce = o.prev.nonce + 1

\* One invocation constructed two operations on one address, the second
\* with the nonce that the first one left behind.
C5_TwoOperationsTwoReads ==
    \E o1, o2 \in ops :
        /\ o1.p = o2.p
        /\ o1.addr = o2.addr
        /\ o1.kind = "importAVA"
        /\ o2.kind = "addValidator"
        /\ o2.nonce = o1.nonce + 1

\* The X-chain ImportAVA error that the import loop retries on.
NotYetFinal(err) == ~err.nil /\ Contains(err.msg, NO_IMPORT_INPUTS_ERROR_STR)

\* C8: in TransferAvaPChainToXChain, while the last X-chain ImportAVA failed
\* with the "no import inputs" error the workflow is still in the import loop,
\* whatever the number of attempts, and every ImportAVA call has the same
\* address argument; the workflow leaves the loop for the acceptance wait
\* after a call that succeeded, and returns with the error of a call that
\* failed otherwise.
C8_ImportRetriedUntilFinal ==
    \A p \in Procs :
        wf[p] = "TransferAvaPChainToXChain" =>
            /\ (loc[p].importAttempts > 0 /\ NotYetFinal(loc[p].importErr))
                  => pc[p] \in {"L309", "L310", "L300"}
            /\ hist[p].last.method = "X.ImportAVA"
                  => hist[p].last.addr = loc[p].xchainAddress
            /\ (pc[p] \in {"L324", "L329", "L335", "L316"} \/ waitRes[p].fn # "none")
                  => loc[p].importErr.nil /\ loc[p].importAttempts > 0
            /\ (pc[p] = "done" /\ loc[p].importAttempts > 0 /\ ~loc[p].importErr.nil)
                  => /\ ~NotYetFinal(loc[p].importErr)
                     /\ ret[p].err = Propagate(loc[p].importErr,
                           <<"Failed", "import", "AVA", "to", "xchainAddress">>)

\* The import loop has made as many attempts as the model allows, the last
\* one failed with the "no import inputs" error, and the loop goes on.
C8_StillRetrying ==
    \E p \in Procs :
        /\ wf[p] = "TransferAvaPChainToXChain"
        /\ loc[p].importAttempts = MaxImportAttempts
        /\ NotYetFinal(loc[p].importErr)
        /\ pc[p] = "L309"

\* C9: in TransferAvaPChainToXChain no two X-chain ImportAVA calls are made
\* without a sleep between them: every retry, the first included, comes
\* after a sleep that follows the failed attempt.
C9_SleepBetweenImports ==
    \A p \in Procs : ~hist[p].importsBackToBack

\* C10: once a state query of a wait primitive has failed, the primitive
\* has returned, with the query's error, and it has made no further query
\* and has not slept after the failing one.
C10_QueryFailureEndsWait ==
    \A p \in Procs :
        hist[p].failed =>
            /\ pc[p] = "done"
            /\ ret[p].err.kind = "rpc"
            /\ ~hist[p].last.ok
            /\ ~hist[p].callAfterFail
            /\ ~hist[p].sleepAfterFail

\* A query failed after the primitive had slept: not the first query.
C10_LaterQueryFailed ==
    \E p \in Procs : hist[p].failed /\ wake[p] > 0

\* C6: the runner takes no lock between the nonce read and its use: while
\* one invocation holds a nonce it has read and not yet submitted, another
\* invocation on the same P-chain address that is about to read the nonce
\* can do so at once, so that two invocations come to submit the same
\* nonce + 1 (the state C6_SameNonceSubmittedTwice).
C6_NoLockBetweenReadAndUse ==
    \A p, q \in Procs :
        ( /\ p # q
          /\ loc[p].pchainAddress = loc[q].pchainAddress
          /\ HoldsNonce(p)
          /\ AtNonceRead(q)
          /\ Awake(q) )
        => ENABLED ( \/ AddDelegatorOnSubnet(q)
                     \/ AddValidatorOnSubnet(q)
                     \/ TransferAvaPChainToXChain(q) )

\* Two invocations read the same nonce of one address, and both submitted
\* an operation with that nonce plus one.
C6_SameNonceSubmittedTwice ==
    \E o1, o2 \in ops, i1, i2 \in issued :
        /\ o1.p # o2.p
        /\ i1.p = o1.p /\ i2.p = o2.p
        /\ o1.addr = o2.addr
        /\ o1.prev.method = "P.GetAccount" /\ o2.prev.method = "P.GetAccount"
        /\ o1.prev.nonce = o2.prev.nonce
        /\ i1.tx.addr = o1.addr /\ i2.tx.addr = o2.addr
        /\ i1.tx.nonce = o1.prev.nonce + 1
        /\ i2.tx.nonce = o2.prev.nonce + 1

\* No other invocation works on the P-chain address of p.
OwnAddress(p) == \A q \in Procs \ {p} : loc[q].pchainAddress # loc[p].pchainAddress

\* C7: when concurrent invocations each work on a P-chain address of their
\* own, every operation is submitted with the node's nonce of its address
\* at the time of submission plus one, and no two submitted operations on
\* one address carry the same nonce.
C7_DistinctAddressesAreSafe ==
    \A i \in issued :
        OwnAddress(i.p) =>
            /\ i.tx.addr = loc[i.p].pchainAddress
            /\ i.tx.nonce = i.nodeNonce + 1
            /\ \A j \in issued :
                  (j # i /\ j.tx.addr = i.tx.addr) => j.tx.nonce # i.tx.nonce

\* Two invocations on different addresses, whose nonces differ, have both
\* submitted, the second after the node applied the first one's transaction.
C7_BothSubmitted ==
    \E i, j \in issued :
        /\ i.p # j.p
        /\ i.tx.addr # j.tx.addr
        /\ i.nodeNonce # j.nodeNonce
        /\ nonce[i.tx.addr] = i.tx.nonce

\* The loop heads of the wait primitives, reached after the first query.
LoopHeads == {"L329", "L351", "L385"}

\* p has made the first query of a wait primitive, it succeeded, and p has
\* neither slept nor returned since.
AfterFirstQuery(p) == pc[p] \in LoopHeads /\ wake[p] = 0

\* C11: when the first query of a wait primitive shows the awaited condition,
\* the next step of the primitive is the return of nil, with no further
\* query and no sleep, whatever networkAcceptanceTimeout is.
C11_AlreadyTrueReturnsAtOnce ==
    [][ \A p \in Procs :
          (AfterFirstQuery(p) /\ Awaited(p)) =>
              \/ pc'[p] = pc[p] /\ hist'[p] = hist[p] /\ wake'[p] = wake[p]
              \/ /\ pc'[p] = "done"
                 /\ ret'[p].err.nil
                 /\ hist'[p] = hist[p]
                 /\ wake'[p] = wake[p] ]_vars

\* With a timeout of zero, a wait primitive returned nil after a single
\* successful query and no sleep.
C11_ReturnedAfterOneQuery ==
    \E p \in Procs :
        /\ pc[p] = "done"
        /\ ret[p].err.nil
        /\ wake[p] = 0
        /\ hist[p].last.ok /\ hist[p].last.method # "none"
        /\ Awaited(p)
        /\ networkAcceptanceTimeout = 0

\* The statement of the outermost function at which p stands: its own
\* next statement, or the one that the call in progress returns to.
TopLabel(p) == IF stack[p] = <<>> THEN pc[p] ELSE stack[p][Len(stack[p])]

\* The steps of GetFundsAndStartValidating: the label at which the step's
\* result is examined, the entry of the function called, and the next step.
FundsOrder ==
    [L79 |-> [entry |-> "L79",  next |-> "L84"],
     L84 |-> [entry |-> "L193", next |-> "L88"],
     L88 |-> [entry |-> "L240", next |-> "L92"],
     L92 |-> [entry |-> "L193", next |-> "L97"],
     L97 |-> [entry |-> "L147", next |-> "done"]]

FundsStepOrder(p) ==
    LET t == TopLabel(p)
        back == stack[p] = <<>> /\ t \in {"L84", "L88", "L92", "L97"}
    IN  /\ t # "done" =>
              \/ TopLabel(p)' = t
              \/ TopLabel(p)' = "done"
              \/ /\ TopLabel(p)' = FundsOrder[t].next
                 /\ pc'[p] = FundsOrder[FundsOrder[t].next].entry
        /\ t = "done" => pc'[p] = "done" /\ hist'[p] = hist[p]
        \* a step that returned an error ends the workflow, with no call made
        /\ (back /\ ~ret[p].err.nil /\ pc'[p] # pc[p]) =>
              /\ pc'[p] = "done"
              /\ ~ret'[p].err.nil
              /\ hist'[p] = hist[p]
        /\ (back /\ ret[p].err.nil /\ pc'[p] # pc[p]) =>
              IF t = "L97" THEN pc'[p] = "done" /\ ret'[p].err.nil
              ELSE TopLabel(p)' = FundsOrder[t].next

\* AddValidatorOnSubnet is given the node id that GetNodeId returned and the
\* address that TransferAvaXChainToPChain created and returned.
FundsArguments(p) ==
    \A i \in issued :
        (i.p = p /\ i.tx.kind = "addValidator") =>
            /\ i.tx.nodeId = SelfNodeId
            /\ i.tx.nodeId = loc[p].stakerNodeId
            /\ i.tx.addr = loc[p].stakerPchainAddress
            /\ \E j \in issued :
                  j.p = p /\ j.tx.kind = "importAVA" /\ j.tx.addr = i.tx.addr

\* C12: GetFundsAndStartValidating runs GetNodeId, CreateAndSeedXChainAccount-
\* FromGenesis, TransferAvaXChainToPChain, CreateAndSeedXChainAccountFromGenesis
\* and AddValidatorOnSubnet in this order, the last with the node id of the
\* first step and the address the transfer returned; when a step returns an
\* error the workflow returns an error without starting a later step and
\* without any further call.
C12_FundsStepsInOrder ==
    /\ [](\A p \in Procs : wf[p] = "GetFundsAndStartValidating" => FundsArguments(p))
    /\ [][\A p \in Procs : wf[p] = "GetFundsAndStartValidating" => FundsStepOrder(p)]_vars

\* GetFundsAndStartValidating went through its five steps and returned nil.
C12_AllStepsDone ==
    \E p \in Procs :
        /\ Finished(p, "GetFundsAndStartValidating")
        /\ ret[p].err.nil
        /\ \E i \in issued : i.p = p /\ i.tx.kind = "addValidator"
                                /\ i.tx.addr = <<"P2">>
        /\ Len(xtx) = 3

\* p has returned from CreateAndSeedXChainAccountFromGenesis.
SeedReturned(p) ==
    \/ Finished(p, "CreateAndSeedXChainAccountFromGenesis")
    \/ wf[p] = "GetFundsAndStartValidating" /\ stack[p] = <<>> /\ pc[p] \in {"L84", "L92"}

\* C13: in CreateAndSeedXChainAccountFromGenesis a CreateUser call, failed or
\* not, is followed by the next statement of the workflow, with nothing
\* returned and no failure noted; and the workflow returns nil exactly when
\* none of GetNodeId, ImportKey, CreateAddress, Send and the queries of the
\* acceptance wait failed and the wait returned nil.
C13_CreateUserErrorDropped ==
    /\ [][ \A p \in Procs :
             (pc[p] \in {"L193", "L197"} /\ pc'[p] # pc[p]) =>
                 /\ pc'[p] = IF pc[p] = "L193" THEN "L197" ELSE "L201"
                 /\ hist'[p].last.method = "Keystore.CreateUser"
                 /\ hist'[p].failed = hist[p].failed
                 /\ ret'[p] = ret[p]
                 /\ stack'[p] = stack[p] ]_vars
    /\ [](\A p \in Procs :
             Finished(p, "CreateAndSeedXChainAccountFromGenesis") =>
                 ( ret[p].err.nil <=>
                     /\ ~hist[p].failed
                     /\ waitRes[p].fn = "waitForXchainTransactionAcceptance"
                     /\ waitRes[p].err.nil ))

\* The second CreateUser call failed and the workflow is about to call
\* GetNodeId.
C13_WentOnAfterFailure ==
    \E p \in Procs :
        /\ wf[p] = "CreateAndSeedXChainAccountFromGenesis"
        /\ pc[p] = "L201"
        /\ hist[p].last.method = "Keystore.CreateUser"
        /\ ~hist[p].last.ok

\* C14: CreateAndSeedXChainAccountFromGenesis returns nil with a non-empty
\* address only when the last GetTxStatus query on the transaction of Send
\* reported "Accepted"; otherwise it returns an error and the empty address.
C14_SeedSuccessMeansAccepted ==
    \A p \in Procs :
        SeedReturned(p) =>
            IF ret[p].err.nil
            THEN /\ ret[p].val # NoStr
                 /\ ret[p].val = loc[p].testAccountAddress
                 /\ loc[p].status = "Accepted"
                 /\ loc[p].txnId \in 1..Len(xtx)
                 /\ xtx[loc[p].txnId] = "Accepted"
                 /\ waitRes[p].fn = "waitForXchainTransactionAcceptance"
                 /\ waitRes[p].err.nil
            ELSE ret[p].val = NoStr

\* The seeding returned the new address after the transaction was accepted
\* during the wait.
C14_SeededAfterPolling ==
    \E p \in Procs :
        /\ Finished(p, "CreateAndSeedXChainAccountFromGenesis")
        /\ ret[p].err.nil
        /\ ret[p].val # NoStr
        /\ wake[p] > 0

SignLabels == {"L124", "L163", "L290"}
IssueLabels == {"L132", "L171", "L294"}
ConstructMethods ==
    {"P.AddDefaultSubnetDelegator", "P.AddDefaultSubnetValidator", "P.ExportAVA"}
StagedKinds == {"addDelegator", "addValidator", "exportAVA"}

\* C15: in AddDelegatorOnSubnet, AddValidatorOnSubnet and
\* TransferAvaPChainToXChain, Sign is called only right after a successful
\* construction, on the handle that the construction returned, and IssueTx
\* only right after a successful Sign, on the handle that Sign returned; an
\* issued transaction is the signed form of the operation constructed.
C15_StagesThreaded ==
    \A p \in Procs :
        /\ pc[p] \in SignLabels =>
              /\ hist[p].last.method \in ConstructMethods
              /\ hist[p].last.ok
              /\ Len(loc[p].unsignedTxn) = 1
              /\ loc[p].unsignedTxn[1].stage = "unsigned"
              /\ \E o \in ops :
                    /\ o.p = p
                    /\ o.kind = loc[p].unsignedTxn[1].kind
                    /\ o.addr = loc[p].unsignedTxn[1].addr
                    /\ o.nonce = loc[p].unsignedTxn[1].nonce
        /\ pc[p] \in IssueLabels =>
              /\ hist[p].last.method = "P.Sign"
              /\ hist[p].last.ok
              /\ loc[p].signedTxn = <<[loc[p].unsignedTxn[1] EXCEPT !.stage = "signed"]>>
        /\ \A i \in issued :
              (i.p = p /\ i.tx.kind \in StagedKinds) =>
                  /\ i.tx = loc[p].signedTxn[1]
                  /\ i.tx = [loc[p].unsignedTxn[1] EXCEPT !.stage = "signed"]
        /\ (hist[p].last.method = "P.IssueTx" /\ hist[p].last.ok) =>
              \E i \in issued : i.p = p /\ i.tx.stage = "signed"

\* A constructed, signed export has been issued.
C15_IssuedSignedExport ==
    \E i \in issued :
        /\ i.tx.kind = "exportAVA"
        /\ i.tx.stage = "signed"
        /\ hist[i.p].last.method = "P.IssueTx"
        /\ hist[i.p].last.ok

GateLabels == {"L136", "L175"}

\* p has issued its validator or delegator transaction.
IssuedStake(p) == \E i \in issued : i.p = p /\ i.tx.kind \in {"addDelegator", "addValidator"}

\* C16: once AddDelegatorOnSubnet or AddValidatorOnSubnet has issued its
\* transaction, it stays at the gate while the clock, in Unix seconds, is
\* before the start time computed at construction, it is past the gate only
\* when the clock has reached that start time, and it is not held at the
\* gate after the second in which the clock reaches it.
C16_GateOpensAtStartTime ==
    \A p \in Procs :
        /\ pc[p] \in SignLabels \ {"L290"} => loc[p].startTime = Unix(now) + 20
        /\ IssuedStake(p) =>
              /\ \A i \in issued : (i.p = p /\ i.tx.kind \in {"addDelegator", "addValidator"})
                                       => i.tx.startTime = loc[p].startTime
              /\ pc[p] \in GateLabels =>
                    /\ Unix(now) <= loc[p].startTime
                    /\ Unix(now) = loc[p].startTime => Awake(p)
                    /\ wake[p] <= Seconds(loc[p].startTime) + TicksPerSec - 1
              /\ pc[p] \notin GateLabels => Unix(now) >= loc[p].startTime

\* AddDelegatorOnSubnet returned in the second of the start time.
C16_ReleasedAtStartTime ==
    \E p \in Procs :
        /\ Finished(p, "AddDelegatorOnSubnet")
        /\ IssuedStake(p)
        /\ ret[p].err.nil
        /\ loc[p].startTime >= 20
        /\ Unix(now) = loc[p].startTime

\* The validator and delegator transactions constructed so far.
StakeTxns ==
    UNION { {loc[p].unsignedTxn[k] : k \in 1..Len(loc[p].unsignedTxn)} : p \in Procs }
        \cup {i.tx : i \in issued}

\* C17 as stated: the end time of a validator or delegator transaction
\* exceeds its start time by 72 h.
C17_EndIsStartPlusDuration ==
    \A tx \in StakeTxns :
        /\ tx.kind = "addValidator" => tx.endTime - tx.startTime = TIME_UNTIL_STAKING_ENDS
        /\ tx.kind = "addDelegator" => tx.endTime - tx.startTime = TIME_UNTIL_DELEGATING_ENDS

\* C17, amended: both times are offsets from the clock at construction, the
\* start time 20 s and the end time 72 h after it, so that the end time
\* exceeds the start time by 72 h - 20 s.
C17_BothTimesFromNow ==
    /\ \A tx \in StakeTxns :
          tx.kind \in {"addValidator", "addDelegator"} =>
              tx.endTime - tx.startTime = 259200 - 20
    /\ \A p \in Procs :
          pc[p] \in SignLabels \ {"L290"} =>
              /\ loc[p].unsignedTxn[1].startTime = (now \div TicksPerSec) + 20
              /\ loc[p].unsignedTxn[1].endTime = (now \div TicksPerSec) + 259200

\* A validator transaction was constructed when the clock was not at zero.
C17_ConstructedLater ==
    \E p \in Procs :
        /\ pc[p] = "L163"
        /\ now > 0
        /\ loc[p].unsignedTxn[1].kind = "addValidator"
        /\ loc[p].unsignedTxn[1].endTime > 259200

\* The token sequence body has a member with this key.
HasMember(body, key) ==
    \E i \in 1..(Len(body) - 1) : body[i] = key /\ body[i + 1] = ":"

\* C18: makeRpcRequest never returns with success a body that has no result
\* member: such a body ends in a deserialization failure.
C18_NoResultIsFailure ==
    \A p \in Procs :
        Finished(p, "makeRpcRequest") =>
            /\ ret[p].err.nil => HasMember(ret[p].val, "result")
            /\ ( /\ loc[p].answered
                 /\ loc[p].resp.status = 200
                 /\ ~HasMember(loc[p].resp.body, "result")
                 /\ ~HasMember(loc[p].resp.body, "error") )
               => ~ret[p].err.nil

\* C19: a call blocked in http.Post is not blocked for longer than the
\* requestTimeout the requester was made with: by then the call has ended
\* with a transport error.
C19_PostEndsByTimeout ==
    \A p \in Procs :
        pc[p] = "R88w" => now - loc[p].sentAt <= loc[p].clientTimeout

\* The bodies that are JSON objects (or null) whose members fit the fields
\* of the envelope and whose error code, if any, is zero.
CleanBodies ==
    { <<"{", "jsonrpc", ":", "s", ",", "result", ":", "obj", ",", "id", ":", "1", "}">>,
      <<"{", "jsonrpc", ":", "s", ",", "error", ":", "err0", ",", "result", ":", "obj", "}">>,
      <<"{", "jsonrpc", ":", "s", ",", "id", ":", "1", "}">>,
      <<"{", "}">>,
      <<"null">> }

\* The outcome of a finished call, apart from the number of POSTs.
RpcOutcome(p) ==
    /\ ret[p].err.nil =>
          /\ loc[p].answered
          /\ loc[p].resp.status = 200
          /\ loc[p].resp.body \in CleanBodies
          /\ ret[p].val = loc[p].resp.body
    /\ ~ret[p].err.nil => ret[p].val = NoStr
    /\ ( \/ \E i \in 1..Len(loc[p].params) : loc[p].params[i] = "chan"
         \/ ~loc[p].answered
         \/ loc[p].resp.status # 200
         \/ loc[p].resp.body \notin CleanBodies )
       => ~ret[p].err.nil

\* C20 as stated: every call makes exactly one HTTP POST, and returns the
\* body with success only if the transport succeeded, the status is 200, the
\* body parses and the error code is 0; every failure gives an error and no
\* body.
C20_ExactlyOnePost ==
    \A p \in Procs :
        Finished(p, "makeRpcRequest") => (loc[p].posts = 1 /\ RpcOutcome(p))

\* C20, amended: a call makes at most one HTTP POST: one, unless the request
\* cannot be serialized, and then none; its outcome is as stated.
C20_AtMostOnePost ==
    \A p \in Procs :
        wf[p] = "makeRpcRequest" =>
            /\ loc[p].posts <= 1
            /\ pc[p] \in {"R88w", "R100"} => loc[p].posts = 1
            /\ pc[p] = "done" =>
                  /\ loc[p].posts = 0 <=> ret[p].err.kind = "marshal"
                  /\ ret[p].err.kind = "marshal"
                        <=> \E i \in 1..Len(loc[p].params) : loc[p].params[i] = "chan"
                  /\ RpcOutcome(p)

\* A call returned the body of a response that came after a delay.
C20_ReturnedBody ==
    \E p \in Procs :
        /\ Finished(p, "makeRpcRequest")
        /\ ret[p].err.nil
        /\ HasMember(ret[p].val, "result")
        /\ loc[p].posts = 1
        /\ now > loc[p].sentAt

\* C21: in one run of GetFundsAndStartValidating, the payer nonce submitted
\* with the validator registration is strictly greater than the payer nonce
\* submitted with the earlier P-chain ImportAVA on the same address, also
\* when the node applies the import late: the run never submits two
\* operations on the address with the same nonce.
C21_ValidatorNonceAfterImport ==
    \A i, j \in issued :
        ( /\ i.p = j.p
          /\ wf[i.p] = "GetFundsAndStartValidating"
          /\ i.tx.kind = "importAVA"
          /\ j.tx.kind = "addValidator"
          /\ i.tx.addr = j.tx.addr )
        => j.tx.nonce > i.tx.nonce

\* The state queries of the wait primitives (lines 324, 330, 346, 353, 376, 386).
QueryMethods == {"X.GetTxStatus", "P.GetCurrentValidators", "P.GetAccount"}

\* Steps of a wait call that runs alone: a state query (one that fails ends
\* the call and is recorded; one that succeeds moves the call on), a
\* time.Sleep (lines 335, 352, 392), the end of the call.
Queried(p) ==
    /\ hist'[p].last.method \in QueryMethods
    /\ IF pc'[p] = "done" THEN hist'[p] # hist[p] ELSE pc'[p] # pc[p]

Slept(p) == wake'[p] # wake[p]

Returned(p) == pc[p] # "done" /\ pc'[p] = "done"

\* C22: in each of the three wait primitives the poll cadence is one second:
\* every state query of a wait call but the first directly follows a sleep,
\* every sleep (of one second) directly follows a state query, so that any
\* two consecutive queries, the first and second included, are separated by
\* exactly one one-second sleep; and the call ends directly after a query:
\* no sleep happens after the query whose result ends the wait.
C22_OneSleepBetweenQueries ==
    [][\A p \in Procs :
          /\ Queried(p) => hist[p].last.method \in {"none", "sleep"}
          /\ Slept(p) => /\ hist[p].last.method \in QueryMethods
                         /\ wake'[p] = now + Seconds(1)
          /\ Returned(p) => hist'[p].last.method \in QueryMethods]_vars

=============================================================================
